---- MODULE Spec2Model ----
(***************************************************************************)
(* NGIN::Containers::String (small-buffer-optimised string) and the       *)
(* NGIN::Utilities::LSBFlag word it keeps its mode bit in.                *)
(*                                                                         *)
(* Memory is modelled cell by cell.  A buffer is the sequence of the      *)
(* cells written so far (the code writes every buffer from index 0        *)
(* upwards).  A cell past that sequence holds what the buffer started     *)
(* with: zero in the inline buffer (the constructors memset the union),   *)
(* nothing in a heap block (new char[n] does not initialise), and a read  *)
(* of an uninitialised cell yields any of the values Indeterminate.       *)
(* std::memcpy on overlapping ranges is undefined: the model draws the    *)
(* copy order (CopyOrders).  A read through a null pointer is a fault     *)
(* that ends the process (crashed).                                       *)
(***************************************************************************)
EXTENDS Integers, Sequences, FiniteSets, TLC

\* ---------------------------------------------------------------- bounds
\* Calls (other than destructor calls) made after the first construction.
MaxOps == 3
\* Longest string an append may produce.
MaxSize == 100

\* ------------------------------------------------------ program constants
sboSize == 48
Uint8Bits == 8
SizeBits == 64
SizeBytes == 8
NULL == 0

\* The methods take at most two instances: *this and other.
Inst == {1, 2}

\* Values an uninitialised byte may be read as: the terminator or not.
Indeterminate == {0, 9}

\* What a read of an uninitialised cell gives until the value is drawn
\* (no byte holds it).
Uninit == 2 ^ Uint8Bits

\* memcpy implementations: ascending byte by byte, or as if through a buffer
\* (which is also what a descending copy gives when dst > src).
CopyOrders == {"fwd", "buf"}

Rep(c, n) == [k \in 1..n |-> c]

\* A C string argument: a null pointer, or cells ending in a terminator.
NullStr == [null |-> TRUE, cells |-> <<>>]
CStrOf(s) == [null |-> FALSE, cells |-> s \o <<0>>]
Inputs ==
    {NullStr} \cup
    {CStrOf(s) : s \in {<<>>, <<1>>, <<2>>, Rep(1, sboSize - 2), Rep(2, sboSize - 1)}}

\* std::strlen: the number of cells before the first terminator.
Strlen(cells) ==
    (CHOOSE k \in 1..Len(cells) :
        cells[k] = 0 /\ \A m \in 1..(k - 1) : cells[m] # 0) - 1

\* -------------------------------------------------------------- LSBFlag<T>
Bit(flag) == IF flag THEN 1 ELSE 0

\* value << 1 in a T of the given width.  TLC's integers are narrower than
\* 64 bits, so for size_t no modelled value reaches the truncation.
Shl1(bits, value) ==
    IF bits >= 31 THEN value * 2 ELSE (value * 2) % (2 ^ bits)

LSBSet(bits, value, flag) == Shl1(bits, value) + Bit(flag)
LSBGetValue(raw) == raw \div 2
LSBGetFlag(raw) == (raw % 2) = 1

\* ------------------------------------------------------------ StorageUnion
\* The 48 bytes seen through the layout last written: "small" is
\* sboBuffer[47] + remainingSizeFlag, "normal" is data, capacity, padding,
\* sizeFlag.  Fields of the other layout are kept at zero.
\* std::memset(&buffer, 0, sizeof(buffer))
ZeroBuf ==
    [view |-> "normal", sbo |-> <<>>, rem |-> 0, data |-> NULL, cap |-> 0, szf |-> 0]

\* Byte k (little-endian) of a size_t word.
ByteAt(word, k) ==
    IF 8 * k >= 31 THEN 0 ELSE (word \div (2 ^ (8 * k))) % 256

\* The byte at offset sboSize - 1: remainingSizeFlag in the small layout,
\* the top byte of sizeFlag in the normal one.
CtrlByte(b) ==
    IF b.view = "small" THEN b.rem ELSE ByteAt(b.szf, SizeBytes - 1)

IsSmall(b) == LSBGetFlag(CtrlByte(b))

GetSize(b) ==
    IF IsSmall(b)
    THEN (sboSize - 1) - LSBGetValue(b.rem)
    ELSE LSBGetValue(b.szf)

\* buffer.small.remainingSizeFlag.Set(remaining, true) on a zeroed union
\* whose sboBuffer then received cells
SmallBuf(remaining, cells) ==
    [view |-> "small", sbo |-> cells,
     rem |-> LSBSet(Uint8Bits, remaining % (2 ^ Uint8Bits), TRUE),
     data |-> NULL, cap |-> 0, szf |-> 0]

\* sizeFlag.Set(len, false); capacity = cap; data = p
NormalBuf(len, cap, p) ==
    [view |-> "normal", sbo |-> <<>>, rem |-> 0,
     data |-> p, cap |-> cap, szf |-> LSBSet(SizeBits, len, FALSE)]

\* ------------------------------------------------------------------ memory
NullPtr == [kind |-> "null", id |-> 0]
SboPtr(i) == [kind |-> "sbo", id |-> i]
HeapPtr(p) == IF p = NULL THEN NullPtr ELSE [kind |-> "heap", id |-> p]

\* new char[n]
Alloc(h, n) == Append(h, [cap |-> n, cells |-> <<>>, rel |-> 0])

\* delete[] p
Release(h, p) ==
    IF p = NULL THEN h ELSE [h EXCEPT ![p].rel = @ + 1, ![p].cells = <<>>]

\* What an unwritten cell of the buffer behind ptr holds.
Blank(ptr) == IF ptr.kind = "sbo" THEN 0 ELSE Uninit

Read(cells, off, blank) == IF off < Len(cells) THEN cells[off + 1] ELSE blank

\* memcpy(dst + d, src + s, n) between two distinct objects
CopyCells(dst, d, src, s, n, blank) ==
    SubSeq(dst, 1, d) \o [k \in 1..n |-> Read(src, s + k - 1, blank)]
        \o SubSeq(dst, d + n + 1, Len(dst))

\* memcpy within one object, ascending byte by byte.  With dst > src a cell
\* written at step k - (d - s) is the one read at step k, so the first d - s
\* source bytes repeat; with dst <= src every cell is read before it is
\* written.
CopyFwd(cells, d, s, n, blank) ==
    IF d > s
    THEN SubSeq(cells, 1, d)
            \o [k \in 1..n |-> Read(cells, s + ((k - 1) % (d - s)), blank)]
            \o SubSeq(cells, d + n + 1, Len(cells))
    ELSE CopyCells(cells, d, cells, s, n, blank)

CopyWithin(cells, d, s, n, order, blank) ==
    IF order = "fwd" THEN CopyFwd(cells, d, s, n, blank)
    ELSE CopyCells(cells, d, cells, s, n, blank)

\* live .. hist: the String instances of a single-threaded program and the
\* record of its calls.  thread: the threads of a two-threaded program, each
\* inside a call on its own instance.  flagw: an LSBFlag<T> or MSBFlag<T>
\* object on its own.
VARIABLES live, buffer, heap, crashed, uaf, ops, last, expect, hist,
          thread, flagw

vars == <<live, buffer, heap, crashed, uaf, ops, last, expect, hist,
          thread, flagw>>

\* No thread other than the main one; no flag object under test.
NoThreads == <<>>
NoFlag == [kind |-> "none"]

\* const char* CStr() const
CStr(bufs, i) ==
    IF IsSmall(bufs[i]) THEN SboPtr(i) ELSE HeapPtr(bufs[i].data)

CellsAt(st, ptr) ==
    IF ptr.kind = "sbo" THEN st.bufs[ptr.id].sbo
    ELSE IF ptr.kind = "heap" THEN st.heap[ptr.id].cells
    ELSE <<>>

Released(h, ptr) == ptr.kind = "heap" /\ h[ptr.id].rel > 0

PutCells(st, ptr, cells) ==
    IF ptr.kind = "sbo"
    THEN [st EXCEPT !.bufs[ptr.id].sbo = cells]
    ELSE [st EXCEPT !.heap[ptr.id].cells = cells]

\* The cells of a buffer up to offset d: those before d that were never
\* written hold what an unwritten cell holds.
Padded(cells, d, blank) ==
    IF Len(cells) >= d THEN cells
    ELSE cells \o [k \in 1..(d - Len(cells)) |-> blank]

\* std::memcpy(dst + d, src + s, n) on the program's memory (nothing runs
\* after a fault)
Memcpy(st, dst, d, src, s, n, order) ==
    IF st.crash THEN st
    ELSE IF n > 0 /\ (dst.kind = "null" \/ src.kind = "null")
    THEN [st EXCEPT !.crash = TRUE]
    ELSE IF n = 0 THEN st
    ELSE LET bad == Released(st.heap, dst) \/ Released(st.heap, src)
             new == IF dst = src
                    THEN CopyWithin(CellsAt(st, dst), d, s, n, order, Blank(src))
                    ELSE CopyCells(Padded(CellsAt(st, dst), d, Blank(dst)), d,
                                   CellsAt(st, src), s, n, Blank(src))
         IN  [PutCells(st, dst, new) EXCEPT !.uaf = @ \/ bad]


\* std::memcpy(dst + d, str, n) from the caller's C string
MemcpyIn(st, dst, d, srcCells, n) ==
    IF st.crash THEN st
    ELSE IF n > 0 /\ dst.kind = "null"
    THEN [st EXCEPT !.crash = TRUE]
    ELSE IF n = 0 THEN st
    ELSE [PutCells(st, dst, CopyCells(Padded(CellsAt(st, dst), d, Blank(dst)), d,
                                      srcCells, 0, n, Uninit))
            EXCEPT !.uaf = @ \/ Released(st.heap, dst)]

\* ------------------------------------------------------------ the methods
\* Each takes and returns st = [bufs, heap, crash, uaf, oom, threw]: the
\* instances' unions, the heap, whether a null pointer was read, whether a
\* released block was touched, whether operator new fails in this call, and
\* whether the call left by std::bad_alloc.

\* new char[n] throws: the call ends here, with st as it is.
Throw(st) == [st EXCEPT !.threw = TRUE]

\* String::String()
CtorDefault(st, i) ==
    [st EXCEPT !.bufs[i] = SmallBuf(sboSize - 1, <<0>>)]

\* Faulty variants of String(const char*), each differing from the source in
\* one place; the properties below must tell them apart from CtorCStr.
\* (a) copies len bytes, leaving the terminator out
CtorCStr_NoTerminator(st, i, str) ==
    IF str.null
    THEN [st EXCEPT !.bufs[i] = SmallBuf(sboSize - 1, <<0>>)]
    ELSE LET len == Strlen(str.cells) IN
         IF len < sboSize - 1
         THEN [st EXCEPT !.bufs[i] =
                  SmallBuf((sboSize - 1) - len,
                           CopyCells(<<>>, 0, str.cells, 0, len + 1, Uninit))]
         ELSE IF st.oom THEN Throw(st)
         ELSE LET h1 == Alloc(st.heap, len + 1)
                  p == Len(h1)
                  st1 == [st EXCEPT !.heap = h1,
                                    !.bufs[i] = NormalBuf(len, len + 1, p)]
              IN  MemcpyIn(st1, HeapPtr(p), 0, str.cells, len)

\* (b) tests len <= sboSize - 1 where the source tests len < sboSize - 1
CtorCStr_OffByOne(st, i, str) ==
    IF str.null
    THEN [st EXCEPT !.bufs[i] = SmallBuf(sboSize - 1, <<0>>)]
    ELSE LET len == Strlen(str.cells) IN
         IF len <= sboSize - 1
         THEN [st EXCEPT !.bufs[i] =
                  SmallBuf((sboSize - 1) - len,
                           CopyCells(<<>>, 0, str.cells, 0, len + 1, Uninit))]
         ELSE IF st.oom THEN Throw(st)
         ELSE LET h1 == Alloc(st.heap, len + 1)
                  p == Len(h1)
                  st1 == [st EXCEPT !.heap = h1,
                                    !.bufs[i] = NormalBuf(len, len + 1, p)]
              IN  MemcpyIn(st1, HeapPtr(p), 0, str.cells, len + 1)

\* String::String(const char* str)
CtorCStr(st, i, str) ==
    IF str.null
    THEN [st EXCEPT !.bufs[i] = SmallBuf(sboSize - 1, <<0>>)]
    ELSE LET len == Strlen(str.cells) IN
         IF len < sboSize - 1
         THEN [st EXCEPT !.bufs[i] =
                  SmallBuf((sboSize - 1) - len,
                           CopyCells(<<>>, 0, str.cells, 0, len + 1, Uninit))]
         ELSE IF st.oom THEN Throw(st)
         ELSE LET h1 == Alloc(st.heap, len + 1)
                  p == Len(h1)
                  st1 == [st EXCEPT !.heap = h1,
                                    !.bufs[i] = NormalBuf(len, len + 1, p)]
              IN  MemcpyIn(st1, HeapPtr(p), 0, str.cells, len + 1)

\* Faulty variant of the copy constructor: the copy takes the source's
\* pointer instead of a block of its own.
CopyCtor_Shallow(st, i, j) ==
    IF IsSmall(st.bufs[j])
    THEN [st EXCEPT !.bufs[i] = st.bufs[j]]
    ELSE LET len == GetSize(st.bufs[j]) IN
         [st EXCEPT !.bufs[i] = NormalBuf(len, st.bufs[j].cap, st.bufs[j].data)]

\* String::String(const String& other), this = i, other = j
CopyCtor(st, i, j) ==
    IF IsSmall(st.bufs[j])
    THEN [st EXCEPT !.bufs[i] = st.bufs[j]]
    ELSE IF st.oom THEN Throw(st)
    ELSE LET len == GetSize(st.bufs[j])
             cap == st.bufs[j].cap
             h1 == Alloc(st.heap, cap)
             p == Len(h1)
             st1 == [st EXCEPT !.heap = h1, !.bufs[i] = NormalBuf(len, cap, p)]
         IN  Memcpy(st1, HeapPtr(p), 0, HeapPtr(st.bufs[j].data), 0, len + 1, "buf")

\* Faulty variant of the move constructor: a small source is emptied.
MoveCtor_EmptiesSmallSource(st, i, j) ==
    IF IsSmall(st.bufs[j])
    THEN [st EXCEPT !.bufs[i] = st.bufs[j],
                    !.bufs[j] = SmallBuf(sboSize - 1, <<0>>)]
    ELSE LET len == GetSize(st.bufs[j]) IN
         [st EXCEPT !.bufs[i] = NormalBuf(len, st.bufs[j].cap, st.bufs[j].data),
                    !.bufs[j] = NormalBuf(0, 0, NULL)]

\* Faulty variant of the move constructor: a large source is reset to the
\* empty small state.
MoveCtor_ResetsToSmall(st, i, j) ==
    IF IsSmall(st.bufs[j])
    THEN [st EXCEPT !.bufs[i] = st.bufs[j]]
    ELSE LET len == GetSize(st.bufs[j]) IN
         [st EXCEPT !.bufs[i] = NormalBuf(len, st.bufs[j].cap, st.bufs[j].data),
                    !.bufs[j] = SmallBuf(sboSize - 1, <<0>>)]

\* Faulty variant of the move constructor: the source keeps its pointer.
MoveCtor_KeepsSource(st, i, j) ==
    IF IsSmall(st.bufs[j])
    THEN [st EXCEPT !.bufs[i] = st.bufs[j]]
    ELSE LET len == GetSize(st.bufs[j]) IN
         [st EXCEPT !.bufs[i] = NormalBuf(len, st.bufs[j].cap, st.bufs[j].data)]

\* String::String(String&& other), this = i, other = j
MoveCtor(st, i, j) ==
    IF IsSmall(st.bufs[j])
    THEN [st EXCEPT !.bufs[i] = st.bufs[j]]
    ELSE LET len == GetSize(st.bufs[j]) IN
         [st EXCEPT !.bufs[i] = NormalBuf(len, st.bufs[j].cap, st.bufs[j].data),
                    !.bufs[j] = NormalBuf(0, 0, NULL)]

\* Faulty variant of the destructor: nothing is released.
Dtor_Leak(st, i) == st

\* String::~String()
Dtor(st, i) ==
    IF ~IsSmall(st.bufs[i]) /\ st.bufs[i].data # NULL
    THEN [st EXCEPT !.heap = Release(st.heap, st.bufs[i].data),
                    !.bufs[i].data = NULL]
    ELSE st

\* The clean-up both assignment operators start with, then the memset.
DropOld(st, i) ==
    LET st1 == IF ~IsSmall(st.bufs[i]) /\ st.bufs[i].data # NULL
               THEN [st EXCEPT !.heap = Release(st.heap, st.bufs[i].data),
                               !.bufs[i].data = NULL]
               ELSE st
    IN  [st1 EXCEPT !.bufs[i] = ZeroBuf]

\* String::operator=(const String& other)
CopyAssign(st, i, j) ==
    IF i = j THEN st
    ELSE LET st2 == DropOld(st, i) IN
         IF IsSmall(st2.bufs[j])
         THEN [st2 EXCEPT !.bufs[i] = st2.bufs[j]]
         ELSE LET len == GetSize(st2.bufs[j])
                  cap == st2.bufs[j].cap
                  h1 == Alloc(st2.heap, cap)
                  p == Len(h1)
                  st3 == [st2 EXCEPT !.heap = h1,
                                     !.bufs[i] = NormalBuf(len, cap, p)]
              IN  IF st2.oom
                  THEN Throw([st2 EXCEPT !.bufs[i] = NormalBuf(len, cap, NULL)])
                  ELSE Memcpy(st3, HeapPtr(p), 0, HeapPtr(st2.bufs[j].data), 0,
                              len + 1, "buf")

\* Faulty variant of move assignment: no "this == &other" test.
MoveAssign_NoGuard(st, i, j) ==
    LET st2 == DropOld(st, i) IN
    IF IsSmall(st2.bufs[j])
    THEN [st2 EXCEPT !.bufs[i] = st2.bufs[j]]
    ELSE LET len == GetSize(st2.bufs[j]) IN
         [[st2 EXCEPT
              !.bufs[i] = NormalBuf(len, st2.bufs[j].cap, st2.bufs[j].data)]
             EXCEPT !.bufs[j] = NormalBuf(0, 0, NULL)]

\* Faulty variant of move assignment: the source keeps its capacity field.
MoveAssign_KeepsCapacity(st, i, j) ==
    IF i = j THEN st
    ELSE LET st2 == DropOld(st, i) IN
         IF IsSmall(st2.bufs[j])
         THEN [st2 EXCEPT !.bufs[i] = st2.bufs[j]]
         ELSE LET len == GetSize(st2.bufs[j]) IN
              [st2 EXCEPT
                 !.bufs[i] = NormalBuf(len, st2.bufs[j].cap, st2.bufs[j].data),
                 !.bufs[j] = NormalBuf(0, st2.bufs[j].cap, NULL)]

\* String::operator=(String&& other)
MoveAssign(st, i, j) ==
    IF i = j THEN st
    ELSE LET st2 == DropOld(st, i) IN
         IF IsSmall(st2.bufs[j])
         THEN [st2 EXCEPT !.bufs[i] = st2.bufs[j]]
         ELSE LET len == GetSize(st2.bufs[j]) IN
              [st2 EXCEPT
                 !.bufs[i] = NormalBuf(len, st2.bufs[j].cap, st2.bufs[j].data),
                 !.bufs[j] = NormalBuf(0, 0, NULL)]

\* Faulty variant of ReallocateAndCopy: the old block is released before the
\* new one is asked for.
ReallocateAndCopy_DeleteFirst(st, i, newCapacity, currentSize) ==
    LET st0 == IF IsSmall(st.bufs[i]) THEN st
               ELSE [st EXCEPT !.heap = Release(st.heap, st.bufs[i].data)]
        h1 == Alloc(st0.heap, newCapacity)
        newData == Len(h1)
        st1 == [st0 EXCEPT !.heap = h1]
        st2 == IF IsSmall(st.bufs[i])
               THEN Memcpy(st1, HeapPtr(newData), 0, SboPtr(i), 0, currentSize, "buf")
               ELSE Memcpy(st1, HeapPtr(newData), 0,
                           HeapPtr(st.bufs[i].data), 0, currentSize, "buf")
    IN  IF st.oom THEN Throw(st0)
        ELSE [st2 EXCEPT !.bufs[i] = NormalBuf(currentSize, newCapacity, newData)]

\* Faulty variant of ReallocateAndCopy: the block has half the capacity asked
\* for, which is the new size without the terminator.
ReallocateAndCopy_Half(st, i, newCapacity, currentSize) ==
    LET h1 == Alloc(st.heap, newCapacity \div 2)
        newData == Len(h1)
        st1 == [st EXCEPT !.heap = h1]
        st2 == IF IsSmall(st.bufs[i])
               THEN Memcpy(st1, HeapPtr(newData), 0, SboPtr(i), 0, currentSize, "buf")
               ELSE LET c == Memcpy(st1, HeapPtr(newData), 0,
                                    HeapPtr(st.bufs[i].data), 0, currentSize, "buf")
                    IN  [c EXCEPT !.heap = Release(c.heap, st.bufs[i].data)]
    IN  IF st.oom THEN Throw(st)
        ELSE [st2 EXCEPT !.bufs[i] = NormalBuf(currentSize, newCapacity \div 2, newData)]

\* ReallocateAndCopy that never releases the old block: faulty variant of
\* ReallocateAndCopy.
ReallocateAndCopy_KeepsOld(st, i, newCapacity, currentSize) ==
    LET h1 == Alloc(st.heap, newCapacity)
        newData == Len(h1)
        st1 == [st EXCEPT !.heap = h1]
        st2 == IF IsSmall(st.bufs[i])
               THEN Memcpy(st1, HeapPtr(newData), 0, SboPtr(i), 0, currentSize, "buf")
               ELSE Memcpy(st1, HeapPtr(newData), 0,
                           HeapPtr(st.bufs[i].data), 0, currentSize, "buf")
    IN  IF st.oom THEN Throw(st)
        ELSE [st2 EXCEPT !.bufs[i] = NormalBuf(currentSize, newCapacity, newData)]

\* String::ReallocateAndCopy(newCapacity, currentSize)
ReallocateAndCopy(st, i, newCapacity, currentSize) ==
    LET h1 == Alloc(st.heap, newCapacity)
        newData == Len(h1)
        st1 == [st EXCEPT !.heap = h1]
        st2 == IF IsSmall(st.bufs[i])
               THEN Memcpy(st1, HeapPtr(newData), 0, SboPtr(i), 0, currentSize, "buf")
               ELSE LET c == Memcpy(st1, HeapPtr(newData), 0,
                                    HeapPtr(st.bufs[i].data), 0, currentSize, "buf")
                    IN  [c EXCEPT !.heap = Release(c.heap, st.bufs[i].data)]
    IN  IF st.oom THEN Throw(st)
        ELSE [st2 EXCEPT !.bufs[i] = NormalBuf(currentSize, newCapacity, newData)]

\* The closing "if (!IsSmall()) sizeFlag.Set(totalSize, false)" of Append.
SetHeapSize(st, i, totalSize) ==
    IF ~IsSmall(st.bufs[i])
    THEN [st EXCEPT !.bufs[i].szf = LSBSet(SizeBits, totalSize, FALSE)]
    ELSE st

\* String::Append(const String& other), this = i, other = j (j = i allowed).
\* other.CStr() is evaluated at each memcpy, after any reallocation.
AppendString(st, i, j, order) ==
    LET currentSize == GetSize(st.bufs[i])
        otherSize == GetSize(st.bufs[j])
        totalSize == currentSize + otherSize
        grown == ReallocateAndCopy(st, i, (totalSize * 2) + 1, currentSize)
        st1 ==
          IF IsSmall(st.bufs[i])
          THEN LET remaining == LSBGetValue(st.bufs[i].rem) IN
               IF remaining > otherSize
               THEN [Memcpy(st, SboPtr(i), currentSize, CStr(st.bufs, j), 0,
                            otherSize + 1, order)
                       EXCEPT !.bufs[i].rem =
                          LSBSet(Uint8Bits,
                                 (remaining - otherSize) % (2 ^ Uint8Bits), TRUE)]
               ELSE IF grown.threw THEN grown
               ELSE Memcpy(grown, HeapPtr(grown.bufs[i].data), currentSize,
                           CStr(grown.bufs, j), 0, otherSize + 1, order)
          ELSE LET r == IF totalSize + 1 > st.bufs[i].cap THEN grown ELSE st IN
               IF r.threw THEN r
               ELSE Memcpy(r, HeapPtr(r.bufs[i].data), currentSize,
                           CStr(r.bufs, j), 0, otherSize + 1, order)
    IN  IF st1.threw THEN st1 ELSE SetHeapSize(st1, i, totalSize)

\* Append(const char*) whose inline path copies the bytes and leaves
\* remainingSizeFlag as it was: faulty variant of AppendCStr.
AppendCStr_KeepsRemaining(st, i, str) ==
    IF str.null THEN st
    ELSE LET appendSize == Strlen(str.cells) IN
    IF appendSize = 0 THEN st
    ELSE
    LET currentSize == GetSize(st.bufs[i])
        totalSize == currentSize + appendSize
        grown == ReallocateAndCopy(st, i, (totalSize * 2) + 1, currentSize)
        st1 ==
          IF IsSmall(st.bufs[i])
          THEN LET remaining == LSBGetValue(st.bufs[i].rem) IN
               IF remaining > appendSize
               THEN MemcpyIn(st, SboPtr(i), currentSize, str.cells,
                             appendSize + 1)
               ELSE IF grown.threw THEN grown
               ELSE MemcpyIn(grown, HeapPtr(grown.bufs[i].data), currentSize,
                             str.cells, appendSize + 1)
          ELSE LET r == IF totalSize + 1 > st.bufs[i].cap THEN grown ELSE st IN
               IF r.threw THEN r
               ELSE MemcpyIn(r, HeapPtr(r.bufs[i].data), currentSize,
                             str.cells, appendSize + 1)
    IN  IF st1.threw THEN st1 ELSE SetHeapSize(st1, i, totalSize)

\* String::Append(const char* const str)
AppendCStr(st, i, str) ==
    IF str.null THEN st
    ELSE LET appendSize == Strlen(str.cells) IN
    IF appendSize = 0 THEN st
    ELSE
    LET currentSize == GetSize(st.bufs[i])
        totalSize == currentSize + appendSize
        grown == ReallocateAndCopy(st, i, (totalSize * 2) + 1, currentSize)
        st1 ==
          IF IsSmall(st.bufs[i])
          THEN LET remaining == LSBGetValue(st.bufs[i].rem) IN
               IF remaining > appendSize
               THEN [MemcpyIn(st, SboPtr(i), currentSize, str.cells,
                              appendSize + 1)
                       EXCEPT !.bufs[i].rem =
                          LSBSet(Uint8Bits,
                                 (remaining - appendSize) % (2 ^ Uint8Bits), TRUE)]
               ELSE IF grown.threw THEN grown
               ELSE MemcpyIn(grown, HeapPtr(grown.bufs[i].data), currentSize,
                             str.cells, appendSize + 1)
          ELSE LET r == IF totalSize + 1 > st.bufs[i].cap THEN grown ELSE st IN
               IF r.threw THEN r
               ELSE MemcpyIn(r, HeapPtr(r.bufs[i].data), currentSize,
                             str.cells, appendSize + 1)
    IN  IF st1.threw THEN st1 ELSE SetHeapSize(st1, i, totalSize)


\* ----------------------------------------------------------- observations
Cur == [bufs |-> buffer, heap |-> heap, crash |-> FALSE, uaf |-> uaf,
        oom |-> FALSE, threw |-> FALSE]

\* The same, for a call in which the allocator has no memory to give.
CurOom == [Cur EXCEPT !.oom = TRUE]

\* A call runs with the allocator able to serve it or not.
Mem == {Cur, CurOom}

\* The cells CStr() points at (none behind a null pointer).
CharsIn(bufs, h, i) ==
    CellsAt([bufs |-> bufs, heap |-> h], CStr(bufs, i))

\* The first GetSize() bytes behind CStr().
ContentIn(bufs, h, i) ==
    LET ptr == CStr(bufs, i)
        c == CharsIn(bufs, h, i)
    IN  [k \in 1..GetSize(bufs[i]) |-> Read(c, k - 1, Blank(ptr))]

Content(i) == ContentIn(buffer, heap, i)

\* What no text is: the result of reading a string that has no terminator
\* in its buffer, or a null pointer.
NoText == <<Uninit>>

\* The text a reader of CStr() sees (strcmp, operator<<): the bytes up to the
\* first terminator.
TextIn(bufs, h, i) ==
    LET ptr == CStr(bufs, i)
        c == CharsIn(bufs, h, i)
    IN  IF ptr.kind = "null" THEN NoText
        ELSE IF \E k \in DOMAIN c : c[k] = 0 THEN SubSeq(c, 1, Strlen(c))
        ELSE IF ptr.kind = "sbo" /\ Len(c) < sboSize - 1 THEN c
        ELSE NoText

Text(i) == TextIn(buffer, heap, i)

\* CStr()[GetSize()] is a terminator inside the buffer.
Terminated(i) ==
    LET ptr == CStr(buffer, i)
        n == GetSize(buffer[i])
    IN  /\ ptr.kind # "null"
        /\ n < (IF ptr.kind = "sbo" THEN sboSize - 1 ELSE heap[ptr.id].cap)
        /\ Read(CharsIn(buffer, heap, i), n, Blank(ptr)) = 0

\* Calls of delete[] made so far.
Releases(h) == Cardinality({<<b, k>> \in (DOMAIN h) \X (1..2) : k <= h[b].rel})

\* The byte sequence a C string argument stands for (none for a null
\* pointer): its cells without the closing terminator.
Body(str) == IF str.null THEN <<>> ELSE SubSeq(str.cells, 1, Len(str.cells) - 1)

NoArg == NullStr

\* ---------------------------------------------------------------- actions
\* The program has built its first instance: String s1(str);
Init ==
    \E str \in Inputs :
       LET none == [bufs |-> [i \in Inst |-> ZeroBuf], heap |-> <<>>,
                    crash |-> FALSE, uaf |-> FALSE, oom |-> FALSE,
                    threw |-> FALSE]
           st == CtorCStr(none, 1, str)
       IN  /\ live = [i \in Inst |-> i = 1]
           /\ buffer = st.bufs
           /\ heap = st.heap
           /\ crashed = FALSE
           /\ uaf = FALSE
           /\ ops = 0
           /\ last = [op |-> "ctor_cstr", dst |-> 1, src |-> 0, arg |-> str,
                       news |-> Len(st.heap), dels |-> 0, threw |-> FALSE]
           /\ expect = [i \in Inst |-> IF i = 1 THEN Body(str) ELSE <<>>]
           /\ hist = [i \in Inst |-> IF i = 1 THEN "appends" ELSE "dead"]
           /\ thread = NoThreads
           /\ flagw = NoFlag

CanStep == ~crashed /\ ops < MaxOps

\* Instances are interchangeable: a new one takes the first free slot.
Fresh(i) == ~live[i] /\ \A k \in Inst : k < i => live[k]

\* The string of instance i holds a byte copied from an uninitialised cell.
Tainted(st, i) ==
    LET c == CellsAt(st, CStr(st.bufs, i)) IN \E k \in DOMAIN c : c[k] = Uninit

\* Those bytes take the value u.
Settle(st, i, u) ==
    LET ptr == CStr(st.bufs, i)
        c == CellsAt(st, ptr)
    IN  IF ptr.kind = "null" THEN st
        ELSE PutCells(st, ptr, [k \in DOMAIN c |-> IF c[k] = Uninit THEN u ELSE c[k]])

\* The call on instance dst returns with st, or leaves by std::bad_alloc with
\* st (a constructor that throws leaves no instance; an append that throws
\* has changed nothing), or faults inside it and the process ends.  The
\* methods write cells of dst's string only.
Done(st, op, dst, src, arg, nlive, nexpect, nhist) ==
    /\ UNCHANGED <<thread, flagw>>
    /\ ops' = IF op = "dtor" THEN ops ELSE ops + 1
    /\ last' = [op |-> op, dst |-> dst, src |-> src, arg |-> arg,
                news |-> IF st.crash THEN 0 ELSE Len(st.heap) - Len(heap),
                dels |-> IF st.crash THEN 0 ELSE Releases(st.heap) - Releases(heap),
                threw |-> ~st.crash /\ st.threw]
    /\ IF st.crash
       THEN /\ crashed' = TRUE
            /\ UNCHANGED <<live, buffer, heap, uaf, expect, hist>>
       ELSE LET drawn == Tainted(st, dst) IN
            \E u \in (IF drawn THEN Indeterminate ELSE {0}) :
            LET fin == IF drawn THEN Settle(st, dst, u) ELSE st IN
            /\ crashed' = FALSE
            /\ buffer' = fin.bufs
            /\ heap' = fin.heap
            /\ uaf' = st.uaf
            /\ live' = IF st.threw THEN live ELSE nlive
            /\ expect' = IF st.threw /\ op # "copy_assign" THEN expect ELSE nexpect
            /\ hist' = IF st.threw /\ op # "copy_assign" THEN hist ELSE nhist

\* String s;
ConstructDefault(i) ==
    /\ CanStep /\ Fresh(i)
    /\ Done(CtorDefault(Cur, i), "ctor", i, 0, NoArg,
            [live EXCEPT ![i] = TRUE],
            [expect EXCEPT ![i] = <<>>],
            [hist EXCEPT ![i] = "appends"])

\* String s(str);
Construct(i, str) ==
    /\ CanStep /\ Fresh(i)
    /\ \E mem \in Mem :
         Done(CtorCStr(mem, i, str), "ctor_cstr", i, 0, str,
              [live EXCEPT ![i] = TRUE],
              [expect EXCEPT ![i] = Body(str)],
              [hist EXCEPT ![i] = "appends"])

\* String s(other);
CopyConstruct(i, j) ==
    /\ CanStep /\ Fresh(i) /\ live[j]
    /\ \E mem \in Mem :
         Done(CopyCtor(mem, i, j), "copy_ctor", i, j, NoArg,
              [live EXCEPT ![i] = TRUE],
              [expect EXCEPT ![i] = <<>>],
              [hist EXCEPT ![i] = "other"])

\* String s(std::move(other));
MoveConstruct(i, j) ==
    /\ CanStep /\ Fresh(i) /\ live[j]
    /\ Done(MoveCtor(Cur, i, j), "move_ctor", i, j, NoArg,
            [live EXCEPT ![i] = TRUE],
            [expect EXCEPT ![i] = <<>>, ![j] = <<>>],
            [hist EXCEPT ![i] = "other", ![j] = "other"])

\* s = other;   (s = s included)
CopyAssignment(i, j) ==
    /\ CanStep /\ live[i] /\ live[j]
    /\ \E mem \in Mem :
         Done(CopyAssign(mem, i, j), "copy_assign", i, j, NoArg,
              live,
              [expect EXCEPT ![i] = <<>>],
              [hist EXCEPT ![i] = "other"])

\* s = std::move(other);   (s = std::move(s) included)
MoveAssignment(i, j) ==
    /\ CanStep /\ live[i] /\ live[j]
    /\ Done(MoveAssign(Cur, i, j), "move_assign", i, j, NoArg,
            live,
            [expect EXCEPT ![i] = <<>>, ![j] = <<>>],
            [hist EXCEPT ![i] = "other", ![j] = "other"])

\* s.Append(other); s += other;   (s += s included)
AppendStr(i, j) ==
    /\ CanStep /\ live[i] /\ live[j]
    /\ GetSize(buffer[i]) + GetSize(buffer[j]) <= MaxSize
    /\ \E mem \in Mem, order \in (IF i = j THEN CopyOrders ELSE {"buf"}) :
         Done(AppendString(mem, i, j, order), "append", i, j, NoArg,
              live,
              [expect EXCEPT ![i] = IF i = j \/ hist[i] # "appends" THEN <<>>
                                    ELSE @ \o Content(j)],
              [hist EXCEPT ![i] = IF i = j THEN "other" ELSE @])

\* s.Append(str); s += str;
AppendChars(i, str) ==
    /\ CanStep /\ live[i]
    /\ GetSize(buffer[i]) + Len(Body(str)) <= MaxSize
    /\ \E mem \in Mem :
         Done(AppendCStr(mem, i, str), "append_cstr", i, 0, str,
              live,
              [expect EXCEPT ![i] = IF hist[i] # "appends" THEN <<>>
                                    ELSE @ \o Body(str)],
              hist)

\* The instance goes out of scope.
Destroy(i) ==
    /\ ~crashed /\ live[i]
    /\ Done([Dtor(Cur, i) EXCEPT !.bufs[i] = ZeroBuf], "dtor", i, 0, NoArg,
            [live EXCEPT ![i] = FALSE],
            [expect EXCEPT ![i] = <<>>],
            [hist EXCEPT ![i] = "dead"])

Next ==
    \E i \in Inst :
       \/ ConstructDefault(i)
       \/ \E str \in Inputs : Construct(i, str)
       \/ \E j \in Inst : CopyConstruct(i, j)
       \/ \E j \in Inst : MoveConstruct(i, j)
       \/ \E j \in Inst : CopyAssignment(i, j)
       \/ \E j \in Inst : MoveAssignment(i, j)
       \/ \E j \in Inst : AppendStr(i, j)
       \/ \E str \in Inputs : AppendChars(i, str)
       \/ Destroy(i)

Spec == Init /\ [][Next]_vars


\* ================================================================= claims
\* The heap block an instance owns (none in small mode).
HeapOf(i) == IF IsSmall(buffer[i]) THEN NULL ELSE buffer[i].data

\* The last call returned (it did not fault and did not throw) and was one
\* of ops on i.
Returned(i, opset) ==
    ~crashed /\ ~last.threw /\ last.dst = i /\ last.op \in opset

\* C2: String(s) has GetSize() = length(s) and CStr() reads s; String() and
\* String(nullptr) are empty, in small mode, and allocate nothing.
C2_ConstructionPreservesContent ==
    \A i \in Inst :
       Returned(i, {"ctor", "ctor_cstr"}) =>
          /\ live[i]
          /\ GetSize(buffer[i]) = Len(Body(last.arg))
          /\ Text(i) = Body(last.arg)
          /\ (last.op = "ctor" \/ last.arg.null) =>
                /\ IsSmall(buffer[i])
                /\ CStr(buffer, i) = SboPtr(i)
                /\ last.news = 0

C2_Witness ==
    \E i \in Inst :
       /\ Returned(i, {"ctor_cstr"})
       /\ ~last.arg.null
       /\ Len(Body(last.arg)) = sboSize - 1
       /\ Text(i) = Body(last.arg)

\* C9: String(s) is small and allocates nothing when length(s) <= sboSize - 2,
\* and is large with a block of exactly length(s) + 1 bytes when
\* length(s) >= sboSize - 1.
C9_ModeBoundary ==
    \A i \in Inst :
       (Returned(i, {"ctor_cstr"}) /\ ~last.arg.null) =>
          LET n == Len(Body(last.arg)) IN
          /\ n <= sboSize - 2 => (IsSmall(buffer[i]) /\ last.news = 0)
          /\ n >= sboSize - 1 =>
                /\ ~IsSmall(buffer[i])
                /\ last.news = 1
                /\ buffer[i].data = Len(heap)
                /\ buffer[i].cap = n + 1
                /\ heap[buffer[i].data].cap = n + 1

C9_Witness ==
    \E i \in Inst :
       /\ Returned(i, {"ctor_cstr"})
       /\ Len(Body(last.arg)) = sboSize - 2
       /\ IsSmall(buffer[i])
       /\ GetSize(buffer[i]) = sboSize - 2

\* C5: no two live instances hold the same non-null heap pointer; a move from
\* a large source leaves the source's pointer null and allocates nothing; a
\* copy of a large source allocates one new block, which the copy holds.
C5_ExclusiveOwnership ==
    /\ \A i, j \in Inst :
          (i # j /\ live[i] /\ live[j] /\ HeapOf(i) # NULL) => HeapOf(i) # HeapOf(j)
    /\ \A i, j \in Inst :
          (i # j /\ last.src = j /\ ~IsSmall(buffer[j])) =>
             /\ Returned(i, {"move_ctor", "move_assign"}) =>
                   (buffer[j].data = NULL /\ last.news = 0)
             /\ Returned(i, {"copy_ctor", "copy_assign"}) =>
                   /\ last.news = 1
                   /\ HeapOf(i) = Len(heap)
                   /\ HeapOf(i) # HeapOf(j)

C5_Witness ==
    \E i, j \in Inst :
       /\ i # j /\ live[i] /\ live[j]
       /\ Returned(i, {"move_ctor"}) /\ last.src = j
       /\ HeapOf(i) # NULL
       /\ ~IsSmall(buffer[j]) /\ buffer[j].data = NULL

\* C10 as stated: every live instance in large mode has
\* length <= capacity - 1.
C10_CapacityInvariant_AsStated ==
    \A i \in Inst :
       (live[i] /\ ~IsSmall(buffer[i])) => GetSize(buffer[i]) <= buffer[i].cap - 1

\* C10 as the code has it: every live instance in large mode that holds a
\* block has length <= capacity - 1, capacity being the size of that block.
\* A moved-from source is in large mode with length 0, capacity 0 and no block.
C10_CapacityInvariant ==
    \A i \in Inst :
       (live[i] /\ ~IsSmall(buffer[i]) /\ buffer[i].data # NULL) =>
          /\ GetSize(buffer[i]) <= buffer[i].cap - 1
          /\ heap[buffer[i].data].cap = buffer[i].cap

C10_Witness ==
    \E i \in Inst :
       /\ live[i] /\ Returned(i, {"append", "append_cstr"})
       /\ last.news = 1
       /\ ~IsSmall(buffer[i]) /\ buffer[i].data # NULL
       /\ GetSize(buffer[i]) >= sboSize - 1

\* A block is unreleased exactly while a live instance holds it, no block
\* is released twice, and no released block has been read or written.
NoLeakNoReuse ==
    /\ ~uaf
    /\ \A b \in DOMAIN heap :
          /\ heap[b].rel <= 1
          /\ heap[b].rel = 0 <=> \E i \in Inst : live[i] /\ HeapOf(i) = b

\* This step is the destructor call on instance i.
DestroyStep(i) == last'.op = "dtor" /\ last'.dst = i /\ live[i] /\ ~live'[i]

\* C6: every allocated block is released exactly once by the time every
\* instance is destroyed (none leaks, none is released twice), no block is
\* read or written after its release, and a destructor call on a small
\* instance or on a large instance with a null pointer releases nothing,
\* while on a large instance with a block it releases that block.
C6_ReleasedExactlyOnce ==
    /\ []NoLeakNoReuse
    /\ [][\A i \in Inst :
             DestroyStep(i) =>
                heap' = IF IsSmall(buffer[i]) THEN heap
                        ELSE Release(heap, buffer[i].data)]_vars

C6_Witness ==
    /\ \A i \in Inst : ~live[i]
    /\ last.op = "dtor" /\ last.dels = 1
    /\ Len(heap) >= 2
    /\ \A b \in DOMAIN heap : heap[b].rel = 1

\* This step is a move (construction or assignment) of instance j into a
\* different instance i, and it returned.
MoveStep(i, j) ==
    /\ i # j /\ ~crashed' /\ ops' = ops + 1
    /\ last'.op \in {"move_ctor", "move_assign"}
    /\ last'.dst = i /\ last'.src = j

\* C7: a move from a large source j into another instance i gives i the
\* size, content and pointer j had, allocates nothing and copies no byte
\* (the heap changes only by the release of the block i held), and leaves j
\* in large mode with length 0, capacity 0 and a null pointer, so that the
\* destructor of j releases nothing.
C7_MoveFromLarge ==
    [][\A i, j \in Inst :
          (MoveStep(i, j) /\ ~IsSmall(buffer[j])) =>
             /\ GetSize(buffer'[i]) = GetSize(buffer[j])
             /\ ContentIn(buffer', heap', i) = Content(j)
             /\ CStr(buffer', i) = CStr(buffer, j)
             /\ heap' = Release(heap, HeapOf(i))
             /\ buffer'[j] = NormalBuf(0, 0, NULL)
             /\ ~IsSmall(buffer'[j])
             /\ GetSize(buffer'[j]) = 0
             /\ Dtor([bufs |-> buffer', heap |-> heap', crash |-> FALSE,
                      uaf |-> uaf'], j).heap = heap']_vars

C7_Witness ==
    \E i, j \in Inst :
       /\ i # j /\ live[i] /\ live[j]
       /\ Returned(i, {"move_assign"}) /\ last.src = j /\ last.dels = 1
       /\ HeapOf(i) # NULL
       /\ GetSize(buffer[i]) >= sboSize - 1
       /\ buffer[j] = NormalBuf(0, 0, NULL)

\* CStr() of i and of j compare equal as C strings: both are terminated and
\* hold the same bytes before the terminator.
TextEqual(i, j) == Text(i) # NoText /\ Text(i) = Text(j)

\* C4: after "copy = x" or "String copy(x)" returns, copy has the size of x
\* and a textually equal CStr(); when x is large and copy is another
\* instance, copy holds a newly allocated block of x's capacity, at a
\* different address.
C4_CopyDeepRoundTrip ==
    \A i, j \in Inst :
       (Returned(i, {"copy_ctor", "copy_assign"}) /\ last.src = j) =>
          /\ GetSize(buffer[i]) = GetSize(buffer[j])
          /\ TextEqual(i, j)
          /\ (i # j /\ ~IsSmall(buffer[j])) =>
                /\ ~IsSmall(buffer[i])
                /\ last.news = 1
                /\ buffer[i].data = Len(heap)
                /\ buffer[i].cap = buffer[j].cap
                /\ heap[buffer[i].data].cap = buffer[j].cap
                /\ CStr(buffer, i) # CStr(buffer, j)

\* This step is x.Append(x) on instance i, and it returned.
SelfAppendStep(i) ==
    /\ ~crashed' /\ ~last'.threw /\ ops' = ops + 1
    /\ last'.op = "append" /\ last'.dst = i /\ last'.src = i

\* C8: x += x leaves x with twice its old size and with CStr() reading the
\* old content followed by itself, up to a terminator.
C8_SelfAppendDoubles ==
    [][\A i \in Inst :
          SelfAppendStep(i) =>
             /\ GetSize(buffer'[i]) = 2 * GetSize(buffer[i])
             /\ ContentIn(buffer', heap', i) = Content(i) \o Content(i)
             /\ TextIn(buffer', heap', i) = Content(i) \o Content(i)]_vars

\* C3: CStr() of every live instance points to storage whose byte at index
\* GetSize() is the terminator.
C3_NullTerminated == \A i \in Inst : live[i] => Terminated(i)

\* C1: an instance built by String(a) and then only appended to (from C
\* strings b or from other instances holding bytes b) has GetSize() equal to
\* the sum of the lengths and CStr() reading a followed by every b in turn.
C1_AppendComposition ==
    \A i \in Inst :
       (live[i] /\ hist[i] = "appends") =>
          /\ GetSize(buffer[i]) = Len(expect[i])
          /\ Text(i) = expect[i]

\* The call of this step may write instance k: k is the instance it is made
\* on, or the source of a move.
Touches(k) ==
    \/ last'.dst = k
    \/ last'.op \in {"move_ctor", "move_assign"} /\ last'.src = k

\* C11: a call on one instance (an append to it, an assignment to it, a
\* copy into it, its destruction) leaves every other live instance as it
\* was, the instance it copies or appends from included: same union, same
\* size, same content and text, same heap block.
C11_NoSharedState ==
    [][\A k \in Inst :
          (live[k] /\ ~Touches(k)) =>
             /\ live'[k]
             /\ buffer'[k] = buffer[k]
             /\ GetSize(buffer'[k]) = GetSize(buffer[k])
             /\ ContentIn(buffer', heap', k) = Content(k)
             /\ TextIn(buffer', heap', k) = Text(k)
             /\ HeapOf(k) # NULL => heap'[HeapOf(k)] = heap[HeapOf(k)]]_vars

\* y was made as a copy of a large x and then appended to: x has its 47
\* bytes, y has them followed by one more, each in a block of its own.
C11_Witness ==
    \E x, y \in Inst :
       /\ x # y /\ live[x] /\ live[y]
       /\ Returned(y, {"append_cstr"})
       /\ hist[x] = "appends" /\ hist[y] = "other"
       /\ GetSize(buffer[x]) = sboSize - 1
       /\ Content(y) = Content(x) \o Body(last.arg)
       /\ Len(Body(last.arg)) = 1
       /\ HeapOf(x) # NULL /\ HeapOf(y) # NULL /\ HeapOf(x) # HeapOf(y)

\* This step is "x = x" or "x = std::move(x)" on instance i.
SelfAssignStep(i) ==
    /\ ops' = ops + 1
    /\ last'.op \in {"copy_assign", "move_assign"}
    /\ last'.dst = i /\ last'.src = i

\* C12: x = x and x = std::move(x) return and leave the union of x (size,
\* mode, pointer, capacity), every byte of its buffer and the heap as they
\* were: nothing is allocated, nothing is released.
C12_SelfAssignNoOp ==
    [][\A i \in Inst :
          SelfAssignStep(i) =>
             /\ ~crashed'
             /\ buffer' = buffer
             /\ heap' = heap
             /\ live' = live
             /\ last'.news = 0 /\ last'.dels = 0
             /\ ContentIn(buffer', heap', i) = Content(i)]_vars

C12_Witness ==
    \E i \in Inst :
       /\ live[i] /\ Returned(i, {"move_assign"}) /\ last.src = i
       /\ HeapOf(i) # NULL
       /\ GetSize(buffer[i]) >= sboSize - 1

\* This step is an append to instance i of nothing: of a null pointer, of
\* an empty C string, or of a String of size 0; and it returned.
ZeroAppendStep(i) ==
    /\ ~crashed' /\ ~last'.threw /\ ops' = ops + 1
    /\ last'.dst = i
    /\ \/ last'.op = "append_cstr" /\ Body(last'.arg) = <<>>
       \/ last'.op = "append" /\ GetSize(buffer[last'.src]) = 0

\* Instance i has the same mode, size, pointer, capacity and content after
\* the step as before it.
SameString(i) ==
    /\ IsSmall(buffer'[i]) = IsSmall(buffer[i])
    /\ GetSize(buffer'[i]) = GetSize(buffer[i])
    /\ CStr(buffer', i) = CStr(buffer, i)
    /\ buffer'[i].data = buffer[i].data
    /\ buffer'[i].cap = buffer[i].cap
    /\ ContentIn(buffer', heap', i) = Content(i)

\* C13: an append of nothing to an instance in any state (small, large,
\* moved-from) leaves its size, content, mode, pointer and capacity as they
\* were and allocates nothing.
C13_ZeroAppendNoOp ==
    [][\A i \in Inst :
          ZeroAppendStep(i) => (SameString(i) /\ last'.news = 0)]_vars

\* Instance i is large before the step and small after it.
BackToSmall(i) ==
    /\ live[i] /\ live'[i]
    /\ ~IsSmall(buffer[i]) /\ IsSmall(buffer'[i])

\* This step is "i = j" or "i = std::move(j)" with j another instance, in
\* small mode, and it returned.
AssignFromSmallStep(i, j) ==
    /\ i # j /\ ~crashed' /\ ops' = ops + 1
    /\ last'.op \in {"copy_assign", "move_assign"}
    /\ last'.dst = i /\ last'.src = j
    /\ IsSmall(buffer[j])

\* C14 as stated: no call on a large instance, or with it as argument, puts
\* it back in small mode.
C14_ModeOneWay_AsStated ==
    [][\A i \in Inst : ~BackToSmall(i)]_vars

\* C14 as the code has it: a large instance goes back to small mode in a
\* copy or move assignment to it from another instance that is small, which
\* always does so, and in no other call: not in an append, not when it is
\* copied or moved from, not in an assignment from a large instance.
C14_ModeOneWay ==
    [][\A i \in Inst :
          /\ BackToSmall(i) => \E j \in Inst : AssignFromSmallStep(i, j)
          /\ \A j \in Inst : (AssignFromSmallStep(i, j) /\ live[i]) =>
                (IsSmall(buffer'[i]) /\ buffer'[i] = buffer[j])]_vars

\* A large instance that held a block has been assigned from a small one:
\* the block is released and the instance is small.
C14_Witness ==
    \E i, j \in Inst :
       /\ i # j /\ live[i] /\ live[j]
       /\ Returned(i, {"copy_assign", "move_assign"}) /\ last.src = j
       /\ last.dels = 1
       /\ IsSmall(buffer[i]) /\ IsSmall(buffer[j])

\* This step is an append to instance i that left by std::bad_alloc.
AppendThrowStep(i) ==
    /\ ops' = ops + 1
    /\ last'.threw
    /\ last'.op \in {"append", "append_cstr"}
    /\ last'.dst = i

\* C15: an append in which the allocation of the new block fails (at the
\* switch from small to large, or at the reallocation of a large instance)
\* throws and leaves every instance and the heap as before the call: same
\* mode, size, content, pointer and capacity, no block allocated, none
\* released.
C15_AppendAllocFailure ==
    [][\A i \in Inst :
          AppendThrowStep(i) =>
             /\ ~crashed'
             /\ buffer' = buffer
             /\ heap' = heap
             /\ live' = live
             /\ SameString(i)
             /\ TextIn(buffer', heap', i) = Text(i)
             /\ last'.news = 0 /\ last'.dels = 0]_vars

\* A large instance holding a block met the failure in an append that needed
\* a larger block.
C15_Witness ==
    \E i \in Inst :
       /\ ~crashed /\ live[i] /\ last.threw
       /\ last.op = "append_cstr" /\ last.dst = i
       /\ HeapOf(i) # NULL
       /\ GetSize(buffer[i]) + Len(Body(last.arg)) + 1 > buffer[i].cap
       /\ hist[i] = "appends" /\ Text(i) = expect[i]

\* This step is "i = j" that left by std::bad_alloc (j is large: a copy
\* from a small instance allocates nothing).
CopyAssignThrowStep(i, j) ==
    /\ ops' = ops + 1
    /\ last'.threw
    /\ last'.op = "copy_assign"
    /\ last'.dst = i /\ last'.src = j

\* C16: a copy assignment from a large source in which the allocation fails
\* leaves the destination with the size and the bytes it had before.
C16_CopyAssignAllocFailure ==
    [][\A i, j \in Inst :
          CopyAssignThrowStep(i, j) =>
             /\ GetSize(buffer'[i]) = GetSize(buffer[i])
             /\ ContentIn(buffer', heap', i) = Content(i)]_vars

\* C17: a move (construction or assignment) from a small source j into
\* another instance i copies the union: i is small with j's size and content
\* in its own inline buffer, at another address than j's; j keeps its union,
\* so its size, content and text, and stays small; nothing is allocated, and
\* the heap changes only by the release of the block i held.
C17_MoveFromSmall ==
    [][\A i, j \in Inst :
          (MoveStep(i, j) /\ IsSmall(buffer[j])) =>
             /\ buffer'[i] = buffer[j]
             /\ IsSmall(buffer'[i])
             /\ GetSize(buffer'[i]) = GetSize(buffer[j])
             /\ ContentIn(buffer', heap', i) = Content(j)
             /\ CStr(buffer', i) = SboPtr(i)
             /\ CStr(buffer', i) # CStr(buffer', j)
             /\ buffer'[j] = buffer[j]
             /\ IsSmall(buffer'[j])
             /\ GetSize(buffer'[j]) = GetSize(buffer[j])
             /\ ContentIn(buffer', heap', j) = Content(j)
             /\ TextIn(buffer', heap', j) = Text(j)
             /\ heap' = Release(heap, HeapOf(i))
             /\ last'.news = 0]_vars

C17_Witness ==
    \E i, j \in Inst :
       /\ i # j /\ live[i] /\ live[j]
       /\ Returned(i, {"move_ctor", "move_assign"}) /\ last.src = j
       /\ IsSmall(buffer[i]) /\ IsSmall(buffer[j])
       /\ GetSize(buffer[j]) = sboSize - 2
       /\ Content(i) = Content(j)
       /\ hist[j] = "other" /\ Text(j) = Content(j)

\* This step is an append on i that returned.
AppendStep(i) ==
    /\ ops' = ops + 1
    /\ ~crashed' /\ ~last'.threw
    /\ last'.op \in {"append", "append_cstr"}
    /\ last'.dst = i

\* The bytes the append of this step was given: the content of other, or the
\* C string.
Incoming ==
    IF last'.op = "append" THEN Content(last'.src) ELSE Body(last'.arg)

\* remainingSizeFlag.GetValue() of a small instance
Remaining(b) == LSBGetValue(b.rem)

\* C23: an append of incoming > 0 bytes to a small instance whose remaining
\* capacity is at most incoming (total = current + incoming >= sboSize - 1)
\* switches it to large, with one new block of capacity total * 2 + 1, size
\* total, and the old inline bytes followed by the incoming bytes and the
\* terminator.
C23_SmallToLargeGrowth ==
    [][\A i \in Inst :
          (/\ AppendStep(i)
           /\ IsSmall(buffer[i])
           /\ Len(Incoming) > 0
           /\ Remaining(buffer[i]) <= Len(Incoming))
          => LET total == GetSize(buffer[i]) + Len(Incoming) IN
             /\ total >= sboSize - 1
             /\ ~IsSmall(buffer'[i])
             /\ last'.news = 1
             /\ buffer'[i].data # NULL
             /\ buffer'[i].cap = (total * 2) + 1
             /\ heap'[buffer'[i].data].cap = (total * 2) + 1
             /\ GetSize(buffer'[i]) = total
             /\ ContentIn(buffer', heap', i) = Content(i) \o Incoming
             /\ TextIn(buffer', heap', i) = Content(i) \o Incoming]_vars

\* C24: an append of incoming bytes to a small instance whose remaining
\* capacity exceeds incoming keeps it small, allocates and releases nothing,
\* and lowers the remaining capacity by exactly incoming, so that GetSize()
\* grows by exactly incoming.
C24_InlineAppend ==
    [][\A i \in Inst :
          (/\ AppendStep(i)
           /\ IsSmall(buffer[i])
           /\ Remaining(buffer[i]) > Len(Incoming))
          => /\ IsSmall(buffer'[i])
             /\ last'.news = 0 /\ last'.dels = 0
             /\ heap' = heap
             /\ Remaining(buffer'[i]) = Remaining(buffer[i]) - Len(Incoming)
             /\ GetSize(buffer'[i]) = GetSize(buffer[i]) + Len(Incoming)]_vars

\* A small instance built from a C string took one byte more from a C
\* string and reads the two in turn.
C24_Witness ==
    \E i \in Inst :
       /\ Returned(i, {"append_cstr"})
       /\ Len(Body(last.arg)) > 0
       /\ IsSmall(buffer[i])
       /\ hist[i] = "appends"
       /\ GetSize(buffer[i]) = Len(expect[i])
       /\ Text(i) = expect[i]
       /\ Remaining(buffer[i]) = (sboSize - 1) - Len(expect[i])

\* The append of this step is Append(const char*) with a null pointer or an
\* empty C string.
EmptyCStrAppend == last'.op = "append_cstr" /\ Len(Body(last'.arg)) = 0

\* The append of this step on large instance i gave it a new block of
\* exactly (total * 2) + 1 bytes and released the block it had, if it had
\* one.
Reallocated(i, total) ==
    /\ last'.news = 1
    /\ last'.dels = (IF buffer[i].data = NULL THEN 0 ELSE 1)
    /\ buffer'[i].data # buffer[i].data
    /\ buffer'[i].data # NULL
    /\ buffer'[i].cap = (total * 2) + 1
    /\ heap'[buffer'[i].data].cap = (total * 2) + 1
    /\ (buffer[i].data # NULL => heap'[buffer[i].data].rel = 1)

\* The append of this step on large instance i left its pointer, its
\* capacity and the heap's blocks where they were.
InPlace(i) ==
    /\ last'.news = 0 /\ last'.dels = 0
    /\ buffer'[i].data = buffer[i].data
    /\ buffer'[i].cap = buffer[i].cap

\* C25 as stated: an append to a large instance keeps it large; it
\* reallocates (new block of capacity total * 2 + 1, old block released) if
\* and only if total + 1 > capacity, and otherwise leaves pointer and
\* capacity unchanged; the length becomes total.
C25_LargeAppendPolicy_AsStated ==
    [][\A i \in Inst :
          (AppendStep(i) /\ ~IsSmall(buffer[i]))
          => LET total == GetSize(buffer[i]) + Len(Incoming) IN
             /\ ~IsSmall(buffer'[i])
             /\ GetSize(buffer'[i]) = total
             /\ IF total + 1 > buffer[i].cap
                THEN Reallocated(i, total) ELSE InPlace(i)]_vars

\* C25, amended: the same, except that Append(const char*) with a null
\* pointer or an empty C string returns at once and never reallocates,
\* whatever the capacity.
C25_LargeAppendPolicy ==
    [][\A i \in Inst :
          (AppendStep(i) /\ ~IsSmall(buffer[i]))
          => LET total == GetSize(buffer[i]) + Len(Incoming) IN
             /\ ~IsSmall(buffer'[i])
             /\ GetSize(buffer'[i]) = total
             /\ IF total + 1 > buffer[i].cap /\ ~EmptyCStrAppend
                THEN Reallocated(i, total) ELSE InPlace(i)]_vars

\* A large instance holding a block was appended to beyond its capacity:
\* it owns a new block and the old one is released once.
C25_Witness ==
    \E i \in Inst : \E b \in DOMAIN heap :
       /\ Returned(i, {"append_cstr", "append"})
       /\ last.news = 1 /\ last.dels = 1
       /\ ~IsSmall(buffer[i])
       /\ heap[b].rel = 1
       /\ buffer[i].data # b
       /\ buffer[i].data # NULL
       /\ buffer[i].cap = (GetSize(buffer[i]) * 2) + 1

\* buffer.small.remainingSizeFlag.GetFlag(): bit 0 of the byte at offset
\* sboSize - 1, the bit IsSmall() returns.
ModeBit(b) == LSBGetFlag(CtrlByte(b))

\* buffer.normal.sizeFlag.GetFlag(): the flag bit of the packed length word.
\* The word lies at offset sboSize - SizeBytes and its low-order byte comes
\* first (little-endian), so the bit is bit 0 of the byte at that offset: a
\* byte of sboBuffer when the small layout was written last.
SizeFlagBit(b) ==
    IF b.view = "normal" THEN LSBGetFlag(b.szf)
    ELSE LSBGetFlag(Read(b.sbo, sboSize - SizeBytes, 0))

\* The instance holds inline data: the small layout was written last.
HoldsInline(b) == b.view = "small"

\* C26: the bit IsSmall() reads through the small layout's control byte and
\* the flag bit of the large layout's packed length word are one bit of the
\* storage (reading either gives the same), and IsSmall() is true exactly
\* when the instance holds inline data.
C26_SharedBitDiscriminant ==
    \A i \in Inst :
       live[i] =>
          /\ ModeBit(buffer[i]) = SizeFlagBit(buffer[i])
          /\ IsSmall(buffer[i]) <=> HoldsInline(buffer[i])

\* The bytes of sboBuffer written so far lie inside sboBuffer: none is the
\* control byte.
InsideInline(b) == Len(b.sbo) <= sboSize - 1

\* C27: in every small state the remaining capacity is between 1 and
\* sboSize - 1, GetSize() is (sboSize - 1) - remaining and at most
\* sboSize - 2, the terminator is at index GetSize() inside the inline
\* buffer, and nothing was written over the control byte.
C27_SmallRepresentation ==
    \A i \in Inst :
       (live[i] /\ IsSmall(buffer[i])) =>
          /\ Remaining(buffer[i]) \in 1..(sboSize - 1)
          /\ GetSize(buffer[i]) = (sboSize - 1) - Remaining(buffer[i])
          /\ GetSize(buffer[i]) <= sboSize - 2
          /\ InsideInline(buffer[i])
          /\ Terminated(i)

\* Instance k is a large instance whose block was stolen by a move: length
\* 0, capacity 0, null pointer.
MovedFrom(k) ==
    /\ live[k]
    /\ ~IsSmall(buffer[k])
    /\ buffer[k].data = NULL
    /\ buffer[k].cap = 0
    /\ GetSize(buffer[k]) = 0

\* This step is a call on k or with k as its argument.
Involves(k) ==
    /\ last'.op # "none"
    /\ (ops' = ops + 1 \/ last'.op = "dtor")
    /\ (last'.dst = k \/ last'.src = k)

\* C28: a call that involves a moved-from instance (copying from it,
\* appending it, appending to it, assigning to it, destroying it) completes
\* without an access through its null pointer and takes it as a string of
\* size 0: a copy of it is empty, appending it adds nothing.
C28_MovedFromUsable ==
    [][\A k \in Inst :
          (MovedFrom(k) /\ Involves(k)) =>
             /\ ~crashed'
             /\ ~uaf'
             /\ (last'.src = k /\ last'.dst # k /\ ~last'.threw
                   /\ last'.op \in {"copy_ctor", "copy_assign"})
                  => GetSize(buffer'[last'.dst]) = 0
             /\ (last'.src = k /\ last'.dst # k /\ ~last'.threw
                   /\ last'.op = "append")
                  => GetSize(buffer'[last'.dst]) = GetSize(buffer[last'.dst])]_vars

\* C29: in every large state of an instance, the states left by a failed
\* allocation in copy assignment or append included, a null heap pointer
\* comes with stored length 0 and capacity 0.
C29_NullPointerConsistency ==
    \A i \in Inst :
       (live[i] /\ ~IsSmall(buffer[i]) /\ buffer[i].data = NULL) =>
          /\ GetSize(buffer[i]) = 0
          /\ buffer[i].cap = 0

\* ================================================== two threads, two instances
\* Thread t makes MaxCalls calls of Append(const char*) on instance t, which
\* the main thread constructed before it started the two.  A step of a thread
\* is one statement of Append or of ReallocateAndCopy that reads or writes
\* memory or calls the allocator; operator new and operator delete are atomic.
MaxCalls == 2

Thread == {1, 2}

ThreadInits == {CStrOf(<<1>>), CStrOf(Rep(2, sboSize - 1))}

ThreadArgs == {CStrOf(<<1>>), CStrOf(Rep(1, sboSize - 2))}

Programs == [1..MaxCalls -> ThreadArgs]

Nothing ==
    [bufs |-> [i \in Inst |-> ZeroBuf], heap |-> <<>>, crash |-> FALSE,
     uaf |-> FALSE, oom |-> FALSE, threw |-> FALSE]

InitThreads ==
    \E a \in [Thread -> ThreadInits], p \in [Thread -> Programs] :
       LET st == CtorCStr(CtorCStr(Nothing, 1, a[1]), 2, a[2]) IN
       /\ live = [i \in Inst |-> TRUE]
       /\ buffer = st.bufs
       /\ heap = st.heap
       /\ crashed = FALSE
       /\ uaf = FALSE
       /\ ops = 0
       /\ last = [op |-> "ctor_cstr", dst |-> 2, src |-> 0, arg |-> a[2],
                   news |-> 0, dels |-> 0, threw |-> FALSE]
       /\ expect = [i \in Inst |-> Body(a[i])]
       /\ hist = [i \in Inst |-> "appends"]
       /\ thread = [t \in Thread |->
                      [pc |-> "idle", init |-> a[t], calls |-> p[t], k |-> 1,
                       currentSize |-> 0, appendSize |-> 0, newData |-> NULL]]
       /\ flagw = NoFlag

\* "char* newData" of ReallocateAndCopy as a static, shared by all calls:
\* faulty variant of NewDataOf.
NewDataShared(t) == 1

\* Where thread t keeps "char* newData" of ReallocateAndCopy: in its own
\* frame.
NewDataOf(t) == t

\* The string thread t is appending.
StrOf(t) == thread[t].calls[thread[t].k]

\* newCapacity = (totalSize * 2) + 1
NewCapacityOf(t) == ((thread[t].currentSize + thread[t].appendSize) * 2) + 1

\* The call of thread t returns.
Return(th, t) ==
    [th EXCEPT ![t].k = @ + 1,
               ![t].pc = IF th[t].k + 1 > MaxCalls THEN "end" ELSE "idle"]

\* A step of a thread leaves memory as m.
Leaves(m) ==
    /\ buffer' = m.bufs
    /\ heap' = m.heap
    /\ uaf' = m.uaf
    /\ crashed' = m.crash
    /\ UNCHANGED <<live, ops, last, expect, hist, flagw>>

\* Entry of Append(str) up to the branch on IsSmall() and the capacity.
ThreadCall(t) ==
    /\ thread[t].pc = "idle"
    /\ LET str == StrOf(t)
           appendSize == IF str.null THEN 0 ELSE Strlen(str.cells)
           currentSize == GetSize(buffer[t])
           totalSize == currentSize + appendSize
           to == IF IsSmall(buffer[t])
                 THEN IF LSBGetValue(buffer[t].rem) > appendSize
                      THEN "fit" ELSE "new"
                 ELSE IF totalSize + 1 > buffer[t].cap THEN "new" ELSE "tail"
       IN  thread' = IF appendSize = 0 THEN Return(thread, t)
                     ELSE [thread EXCEPT ![t].pc = to,
                                         ![t].currentSize = currentSize,
                                         ![t].appendSize = appendSize]
    /\ Leaves(Cur)

\* memcpy into the inline buffer and remainingSizeFlag.Set
ThreadFit(t) ==
    /\ thread[t].pc = "fit"
    /\ LET remaining == LSBGetValue(buffer[t].rem)
           m == MemcpyIn(Cur, SboPtr(t), thread[t].currentSize, StrOf(t).cells,
                         thread[t].appendSize + 1)
       IN  Leaves([m EXCEPT !.bufs[t].rem =
                      LSBSet(Uint8Bits,
                             (remaining - thread[t].appendSize) % (2 ^ Uint8Bits),
                             TRUE)])
    /\ thread' = Return(thread, t)

\* char* newData = new char[newCapacity];
ThreadNew(t) ==
    /\ thread[t].pc = "new"
    /\ LET h1 == Alloc(heap, NewCapacityOf(t)) IN
       /\ Leaves([Cur EXCEPT !.heap = h1])
       /\ thread' = [thread EXCEPT ![NewDataOf(t)].newData = Len(h1),
                                   ![t].pc = "copy"]

\* memcpy(newData, old buffer, currentSize)
ThreadCopyOld(t) ==
    /\ thread[t].pc = "copy"
    /\ Leaves(Memcpy(Cur, HeapPtr(thread[NewDataOf(t)].newData), 0,
                     CStr(buffer, t), 0, thread[t].currentSize, "buf"))
    /\ thread' = [thread EXCEPT
                    ![t].pc = IF IsSmall(buffer[t]) THEN "fields" ELSE "delete"]

\* delete[] buffer.normal.data;
ThreadDeleteOld(t) ==
    /\ thread[t].pc = "delete"
    /\ Leaves([Cur EXCEPT !.heap = Release(heap, buffer[t].data)])
    /\ thread' = [thread EXCEPT ![t].pc = "fields"]

\* sizeFlag.Set(currentSize, false); capacity = newCapacity; data = newData;
ThreadFields(t) ==
    /\ thread[t].pc = "fields"
    /\ Leaves([Cur EXCEPT !.bufs[t] =
                  NormalBuf(thread[t].currentSize, NewCapacityOf(t),
                            thread[NewDataOf(t)].newData)])
    /\ thread' = [thread EXCEPT ![t].pc = "tail"]

\* memcpy(buffer.normal.data + currentSize, str, appendSize + 1) and the
\* closing sizeFlag.Set(totalSize, false)
ThreadTail(t) ==
    /\ thread[t].pc = "tail"
    /\ LET m == MemcpyIn(Cur, HeapPtr(buffer[t].data), thread[t].currentSize,
                         StrOf(t).cells, thread[t].appendSize + 1)
       IN  Leaves(IF m.crash THEN m
                  ELSE SetHeapSize(m, t, thread[t].currentSize + thread[t].appendSize))
    /\ thread' = Return(thread, t)

NextThreads ==
    \E t \in Thread :
       \/ ThreadCall(t)
       \/ ThreadFit(t)
       \/ ThreadNew(t)
       \/ ThreadCopyOld(t)
       \/ ThreadDeleteOld(t)
       \/ ThreadFields(t)
       \/ ThreadTail(t)

SpecThreads == InitThreads /\ [][NextThreads]_vars

\* The instance of thread t after its first n calls, had the thread run with
\* no other thread in the process.
RECURSIVE Alone(_, _)
Alone(t, n) ==
    IF n = 0 THEN CtorCStr(Nothing, t, thread[t].init)
    ELSE AppendCStr(Alone(t, n - 1), t, thread[t].calls[n])

\* Thread t is between two calls, or past its last.
AtRest(t) == thread[t].pc \in {"idle", "end"}

\* C18: operations of two threads on two distinct instances do not interfere:
\* in every interleaving of their steps, whenever a thread is between calls
\* its instance has the mode, size, capacity, content and text it has when the
\* thread runs alone, no released block was touched, and the two instances
\* own different blocks.
C18_NoInterference ==
    /\ ~uaf
    /\ ~crashed
    /\ \A t \in DOMAIN thread :
          AtRest(t) =>
             LET ref == Alone(t, thread[t].k - 1) IN
             /\ IsSmall(buffer[t]) = IsSmall(ref.bufs[t])
             /\ GetSize(buffer[t]) = GetSize(ref.bufs[t])
             /\ (~IsSmall(buffer[t]) => buffer[t].cap = ref.bufs[t].cap)
             /\ ContentIn(buffer, heap, t) = ContentIn(ref.bufs, ref.heap, t)
             /\ TextIn(buffer, heap, t) = TextIn(ref.bufs, ref.heap, t)
    /\ \A t \in DOMAIN thread : \A u \in DOMAIN thread :
          (t # u /\ AtRest(t) /\ AtRest(u) /\ ~IsSmall(buffer[t])
             /\ ~IsSmall(buffer[u]))
          => buffer[t].data # buffer[u].data

\* Thread 1 finished both calls with a block it allocated while thread 2 was
\* in the middle of a reallocation of its own (thread 2 holds an older new
\* block and has not yet stored it).
C18_Witness ==
    /\ thread[1].pc = "end"
    /\ thread[2].pc \in {"copy", "delete", "fields"}
    /\ ~IsSmall(buffer[1])
    /\ thread[2].newData # NULL
    /\ buffer[1].data > thread[2].newData

\* =========================================================== the flag words
\* NGIN::Utilities::LSBFlag<T> and MSBFlag<T> on their own, for T = uint8_t
\* (the String's remainingSizeFlag) and T = uint16_t.  An operand narrower
\* than int is promoted, and the result is narrowed to T when it is stored.
Uint16Bits == 16

Widths == {Uint8Bits, Uint16Bits}

\* Values of T around the two ends of its range, around the largest
\* storable value max >> 1, and the two alternating bit patterns.
ValuesOf(bits) ==
    {0, 1, 2, 2 ^ (bits - 2), 2 ^ (bits - 1) - 2, 2 ^ (bits - 1) - 1,
     2 ^ (bits - 1), 2 ^ (bits - 1) + 1, 2 ^ (bits - 1) + 2 ^ (bits - 2),
     2 ^ bits - 2, 2 ^ bits - 1,
     (2 ^ bits - 1) \div 3, 2 * ((2 ^ bits - 1) \div 3)}

\* The words SetRaw is given: every word of uint8_t, and of uint16_t the
\* values above.
WordsOf(bits) ==
    IF bits = Uint8Bits THEN 0..(2 ^ bits - 1) ELSE ValuesOf(bits)

\* a & b
RECURSIVE BitAnd(_, _)
BitAnd(a, b) ==
    IF a = 0 \/ b = 0 THEN 0
    ELSE ((a % 2) * (b % 2)) + 2 * BitAnd(a \div 2, b \div 2)

\* a | b
RECURSIVE BitOr(_, _)
BitOr(a, b) ==
    IF a = 0 THEN b
    ELSE IF b = 0 THEN a
    ELSE (IF (a % 2) + (b % 2) > 0 THEN 1 ELSE 0) + 2 * BitOr(a \div 2, b \div 2)

\* ~a, of which only the low bits of T matter: it is always and-ed with data
Compl(bits, a) == (2 ^ bits - 1) - a

\* Stored into a T
Narrow(bits, x) == x % (2 ^ bits)

\* SetValue that stores the shifted value alone: faulty variant of
\* LSBSetValue.
LSBSetValue_DropsFlag(bits, data, value) == Narrow(bits, value * 2)

\* data = (value << 1) | (data & static_cast<T>(1))
LSBSetValue(bits, data, value) ==
    Narrow(bits, BitOr(value * 2, BitAnd(data, 1)))

\* data = (data & ~static_cast<T>(1)) | static_cast<T>(flag)
LSBSetFlag(bits, data, flag) ==
    Narrow(bits, BitOr(BitAnd(data, Compl(bits, 1)), Bit(flag)))

\* flagMask = static_cast<T>(1) << (sizeof(T) * 8 - 1)
flagMask(bits) == 2 ^ (bits - 1)

\* Set that stores the value unmasked: faulty variant of MSBSet.
MSBSet_NoMask(bits, value, flag) ==
    Narrow(bits, BitOr(value, IF flag THEN flagMask(bits) ELSE 0))

\* data = (value & (flagMask - 1)) | (flag ? flagMask : 0)
MSBSet(bits, value, flag) ==
    Narrow(bits, BitOr(BitAnd(value, flagMask(bits) - 1),
                       IF flag THEN flagMask(bits) ELSE 0))

\* SetValue that stores the masked value alone: faulty variant of
\* MSBSetValue.
MSBSetValue_DropsFlag(bits, data, value) ==
    Narrow(bits, BitAnd(value, flagMask(bits) - 1))

\* data = (value & (flagMask - 1)) | (data & flagMask)
MSBSetValue(bits, data, value) ==
    Narrow(bits, BitOr(BitAnd(value, flagMask(bits) - 1),
                       BitAnd(data, flagMask(bits))))

\* data |= flagMask  or  data &= ~flagMask
MSBSetFlag(bits, data, flag) ==
    IF flag THEN Narrow(bits, BitOr(data, flagMask(bits)))
    ELSE Narrow(bits, BitAnd(data, Compl(bits, flagMask(bits))))

\* GetValue that returns the whole word: faulty variant of MSBGetValue.
MSBGetValue_WholeWord(bits, data) == data

\* return data & (~flagMask)
MSBGetValue(bits, data) == BitAnd(data, Compl(bits, flagMask(bits)))

\* return (data & flagMask) != 0
MSBGetFlag(bits, data) == BitAnd(data, flagMask(bits)) # 0

\* The flag object under test: which template, the width of T, the word, and
\* the last call made on it with its arguments.
FlagObject(kind, bits, data, op, value, flag) ==
    [kind |-> kind, bits |-> bits, data |-> data, op |-> op,
     value |-> value, flag |-> flag]

\* LSBFlag() / MSBFlag(): data(0)
InitFlag ==
    /\ \E kind \in {"lsb", "msb"}, bits \in Widths :
          flagw = FlagObject(kind, bits, 0, "ctor_default", 0, FALSE)
    /\ thread = NoThreads
    /\ live = [i \in Inst |-> FALSE]
    /\ buffer = Nothing.bufs
    /\ heap = Nothing.heap
    /\ crashed = FALSE
    /\ uaf = FALSE
    /\ ops = 0
    /\ last = [op |-> "none", dst |-> 0, src |-> 0, arg |-> NullStr,
               news |-> 0, dels |-> 0, threw |-> FALSE]
    /\ expect = [i \in Inst |-> <<>>]
    /\ hist = [i \in Inst |-> "none"]

\* A call on the flag object leaves the word as data.
FlagStep(data, op, value, flag) ==
    /\ flagw' = FlagObject(flagw.kind, flagw.bits, data, op, value, flag)
    /\ UNCHANGED <<live, buffer, heap, crashed, uaf, ops, last, expect, hist,
                   thread>>

\* LSBFlag(T value, bool flag) / MSBFlag(T value, bool flag)
FlagConstruct ==
    \E value \in ValuesOf(flagw.bits), flag \in BOOLEAN :
       FlagStep(IF flagw.kind = "lsb" THEN LSBSet(flagw.bits, value, flag)
                ELSE MSBSet(flagw.bits, value, flag),
                "ctor", value, flag)

\* Set(T value, bool flag)
FlagSet ==
    \E value \in ValuesOf(flagw.bits), flag \in BOOLEAN :
       FlagStep(IF flagw.kind = "lsb" THEN LSBSet(flagw.bits, value, flag)
                ELSE MSBSet(flagw.bits, value, flag),
                "set", value, flag)

\* SetValue(T value)
FlagSetValue ==
    \E value \in ValuesOf(flagw.bits) :
       FlagStep(IF flagw.kind = "lsb"
                THEN LSBSetValue(flagw.bits, flagw.data, value)
                ELSE MSBSetValue(flagw.bits, flagw.data, value),
                "set_value", value, FALSE)

\* SetFlag(bool flag)
FlagSetFlag ==
    \E flag \in BOOLEAN :
       FlagStep(IF flagw.kind = "lsb"
                THEN LSBSetFlag(flagw.bits, flagw.data, flag)
                ELSE MSBSetFlag(flagw.bits, flagw.data, flag),
                "set_flag", 0, flag)

\* SetRaw(T data)
FlagSetRaw ==
    \E data \in WordsOf(flagw.bits) : FlagStep(data, "set_raw", data, FALSE)

NextFlag ==
    \/ FlagConstruct
    \/ FlagSet
    \/ FlagSetValue
    \/ FlagSetFlag
    \/ FlagSetRaw

SpecFlag == InitFlag /\ [][NextFlag]_vars

\* GetValue() of flag object w
GetValueOf(w) ==
    IF w.kind = "lsb" THEN LSBGetValue(w.data) ELSE MSBGetValue(w.bits, w.data)

\* GetFlag() of flag object w
GetFlagOf(w) ==
    IF w.kind = "lsb" THEN LSBGetFlag(w.data) ELSE MSBGetFlag(w.bits, w.data)

\* The largest value a flag word of the given width stores: max of T >> 1
MaxValue(bits) == 2 ^ (bits - 1) - 1

\* C19: after construction with (v, f) or Set(v, f), of an LSBFlag or an
\* MSBFlag, GetFlag() is f and GetValue() is v mod 2^(w-1): a value up to
\* the maximum reads back exactly, a larger one loses its top bit and the
\* flag is still f.
C19_PackedReadBack ==
    flagw.op \in {"ctor", "set"} =>
       /\ GetFlagOf(flagw) = flagw.flag
       /\ GetValueOf(flagw) = flagw.value % (2 ^ (flagw.bits - 1))
       /\ (flagw.value <= MaxValue(flagw.bits)
             => GetValueOf(flagw) = flagw.value)

\* Set(v, false) on an MSBFlag with v above the maximum: the value read back
\* is v without its top bit, and the flag is still false.
C19_Witness ==
    /\ flagw.kind = "msb"
    /\ flagw.op = "set"
    /\ ~flagw.flag
    /\ flagw.value > MaxValue(flagw.bits)
    /\ GetValueOf(flagw) = flagw.value - flagMask(flagw.bits)
    /\ ~GetFlagOf(flagw)

\* The step is a call of SetValue / of SetFlag.
SetValueStep == flagw' # flagw /\ flagw'.op = "set_value"

SetFlagStep == flagw' # flagw /\ flagw'.op = "set_flag"

\* C20: from any prior state of an LSBFlag or an MSBFlag, SetValue(v) leaves
\* GetFlag() as it was and, for v up to the maximum, makes GetValue() v;
\* SetFlag(f) leaves GetValue() as it was and makes GetFlag() f.
C20_IndependentUpdates ==
    [][/\ SetValueStep =>
            /\ GetFlagOf(flagw') = GetFlagOf(flagw)
            /\ (flagw'.value <= MaxValue(flagw.bits)
                  => GetValueOf(flagw') = flagw'.value)
       /\ SetFlagStep =>
            /\ GetValueOf(flagw') = GetValueOf(flagw)
            /\ GetFlagOf(flagw') = flagw'.flag]_vars

\* SetValue(maximum) on an MSBFlag whose flag was set: the flag is still
\* set and the value reads back.
C20_Witness ==
    /\ flagw.kind = "msb"
    /\ flagw.op = "set_value"
    /\ flagw.value = MaxValue(flagw.bits)
    /\ GetValueOf(flagw) = flagw.value
    /\ GetFlagOf(flagw)

\* GetRaw() of flag object w: return data
GetRawOf(w) == w.data

\* C21: after SetRaw(r), for every word r of T, GetRaw() is r; an LSBFlag
\* then reads GetValue() == r >> 1 and GetFlag() == (r & 1), an MSBFlag
\* reads GetValue() == r with its most significant bit cleared and
\* GetFlag() == that bit.  The three getters are const: reading leaves the
\* word as SetRaw stored it.
C21_RawRoundTrip ==
    flagw.op = "set_raw" =>
       LET r == flagw.value
           top == 2 ^ (flagw.bits - 1)
       IN  /\ GetRawOf(flagw) = r
           /\ flagw.kind = "lsb" =>
                 /\ GetValueOf(flagw) = r \div 2
                 /\ GetFlagOf(flagw) = (r % 2 = 1)
           /\ flagw.kind = "msb" =>
                 /\ GetValueOf(flagw) = (IF r >= top THEN r - top ELSE r)
                 /\ GetFlagOf(flagw) = (r >= top)

\* SetRaw of a word with the top bit and other bits set, on an MSBFlag: the
\* flag reads true and the value is the word without its top bit.
C21_Witness ==
    /\ flagw.kind = "msb"
    /\ flagw.op = "set_raw"
    /\ flagw.value > 2 ^ (flagw.bits - 1)
    /\ GetRawOf(flagw) = flagw.value
    /\ GetFlagOf(flagw)
    /\ GetValueOf(flagw) > 0

\* ====================================================== two flag objects
\* Objects a and b of LSBFlag<T> and objects a and b of MSBFlag<T>, for the
\* same T.  Every call is made with the same arguments on the LSBFlag and on
\* the MSBFlag of one name.
Names == {"a", "b"}

\* Equality on the value bits alone: faulty variant of LSBEq.
LSBEq_ValueOnly(x, y) == (x \div 2) = (y \div 2)

\* LSBFlag: return data == other.data
LSBEq(x, y) == x = y

\* LSBFlag: return data != other.data
LSBNe(x, y) == x # y

\* MSBFlag: return data == other.data
MSBEq(x, y) == x = y

\* MSBFlag: return data != other.data
MSBNe(x, y) == x # y

\* The four objects after a call on the two named x.
PairObject(bits, lsb, msb, x, op, value, flag) ==
    [kind |-> "pair", bits |-> bits, lsb |-> lsb, msb |-> msb,
     x |-> x, op |-> op, value |-> value, flag |-> flag]

\* LSBFlag() / MSBFlag(): data(0), four times
InitPair ==
    /\ \E bits \in Widths :
          flagw = PairObject(bits, [x \in Names |-> 0], [x \in Names |-> 0],
                             "a", "ctor_default", 0, FALSE)
    /\ thread = NoThreads
    /\ live = [i \in Inst |-> FALSE]
    /\ buffer = Nothing.bufs
    /\ heap = Nothing.heap
    /\ crashed = FALSE
    /\ uaf = FALSE
    /\ ops = 0
    /\ last = [op |-> "none", dst |-> 0, src |-> 0, arg |-> NullStr,
               news |-> 0, dels |-> 0, threw |-> FALSE]
    /\ expect = [i \in Inst |-> <<>>]
    /\ hist = [i \in Inst |-> "none"]

\* A call on the two objects named x leaves their words as l and m.
PairStep(x, l, m, op, value, flag) ==
    /\ flagw' = PairObject(flagw.bits, [flagw.lsb EXCEPT ![x] = l],
                           [flagw.msb EXCEPT ![x] = m], x, op, value, flag)
    /\ UNCHANGED <<live, buffer, heap, crashed, uaf, ops, last, expect, hist,
                   thread>>

\* LSBFlag(T value, bool flag) and MSBFlag(T value, bool flag)
PairConstruct(x) ==
    \E value \in ValuesOf(flagw.bits), flag \in BOOLEAN :
       PairStep(x, LSBSet(flagw.bits, value, flag),
                MSBSet(flagw.bits, value, flag), "ctor", value, flag)

\* Set(T value, bool flag) on both
PairSet(x) ==
    \E value \in ValuesOf(flagw.bits), flag \in BOOLEAN :
       PairStep(x, LSBSet(flagw.bits, value, flag),
                MSBSet(flagw.bits, value, flag), "set", value, flag)

\* SetValue(T value) on both
PairSetValue(x) ==
    \E value \in ValuesOf(flagw.bits) :
       PairStep(x, LSBSetValue(flagw.bits, flagw.lsb[x], value),
                MSBSetValue(flagw.bits, flagw.msb[x], value),
                "set_value", value, FALSE)

\* SetFlag(bool flag) on both
PairSetFlag(x) ==
    \E flag \in BOOLEAN :
       PairStep(x, LSBSetFlag(flagw.bits, flagw.lsb[x], flag),
                MSBSetFlag(flagw.bits, flagw.msb[x], flag),
                "set_flag", 0, flag)

NextPair ==
    \E x \in Names :
       \/ PairConstruct(x)
       \/ PairSet(x)
       \/ PairSetValue(x)
       \/ PairSetFlag(x)

SpecPair == InitPair /\ [][NextPair]_vars

\* C22: for LSBFlag and for MSBFlag, a == b exactly when the two have the
\* same GetValue() and the same GetFlag(), and a != b is the negation of
\* a == b.
C22_PackedEquality ==
    LET la == flagw.lsb["a"]
        lb == flagw.lsb["b"]
        ma == flagw.msb["a"]
        mb == flagw.msb["b"]
    IN  /\ LSBEq(la, lb) <=> (/\ LSBGetValue(la) = LSBGetValue(lb)
                              /\ LSBGetFlag(la) = LSBGetFlag(lb))
        /\ LSBNe(la, lb) <=> ~LSBEq(la, lb)
        /\ MSBEq(ma, mb) <=> (/\ MSBGetValue(flagw.bits, ma) = MSBGetValue(flagw.bits, mb)
                              /\ MSBGetFlag(flagw.bits, ma) = MSBGetFlag(flagw.bits, mb))
        /\ MSBNe(ma, mb) <=> ~MSBEq(ma, mb)

\* Two objects with the same non-zero value and different flags: unequal, in
\* both templates.
C22_Witness ==
    /\ flagw.kind = "pair"
    /\ LSBGetValue(flagw.lsb["a"]) = LSBGetValue(flagw.lsb["b"])
    /\ LSBGetValue(flagw.lsb["a"]) > 0
    /\ LSBGetFlag(flagw.lsb["a"]) # LSBGetFlag(flagw.lsb["b"])
    /\ LSBNe(flagw.lsb["a"], flagw.lsb["b"])
    /\ ~LSBEq(flagw.lsb["a"], flagw.lsb["b"])
    /\ MSBNe(flagw.msb["a"], flagw.msb["b"])
    /\ ~MSBEq(flagw.msb["a"], flagw.msb["b"])

\* C30: an LSBFlag and an MSBFlag of the same T that received the same
\* sequence of construction, Set, SetValue and SetFlag calls, with arguments
\* in range or not, have equal GetValue() and equal GetFlag() after every
\* call; only their raw words differ.
C30_ObservationalEquivalence ==
    \A x \in Names :
       /\ LSBGetValue(flagw.lsb[x]) = MSBGetValue(flagw.bits, flagw.msb[x])
       /\ LSBGetFlag(flagw.lsb[x]) = MSBGetFlag(flagw.bits, flagw.msb[x])

\* After SetValue with an out-of-range argument on objects whose flag was
\* set: both read the flag as set and the same non-zero value, and their
\* raw words differ.
C30_Witness ==
    /\ flagw.kind = "pair"
    /\ flagw.op = "set_value"
    /\ flagw.value > MaxValue(flagw.bits)
    /\ LSBGetFlag(flagw.lsb[flagw.x])
    /\ MSBGetFlag(flagw.bits, flagw.msb[flagw.x])
    /\ LSBGetValue(flagw.lsb[flagw.x]) > 0
    /\ LSBGetValue(flagw.lsb[flagw.x]) = MSBGetValue(flagw.bits, flagw.msb[flagw.x])
    /\ flagw.lsb[flagw.x] # flagw.msb[flagw.x]

====
